---- MODULE Spec2Model ----
(***************************************************************************)
(* Foundry OS: manifest store, aggregators (CLI get_empire_status and      *)
(* dashboard get_empire_analytics), the create paths and assign_task.      *)
(*                                                                         *)
(* Python strings on which the code works character by character (project  *)
(* names, revenue strings) are sequences of one-character strings; JSON    *)
(* values are tagged records so that Python's dynamic type errors          *)
(* (AttributeError, TypeError, OverflowError) can be modelled as outcomes. *)
(***************************************************************************)
EXTENDS Integers, Sequences, FiniteSets, TLC

VARIABLES
    projects_dir,    \* the manifest store: sequence of files in directory-scan (glob) order
    dir_exists,      \* whether the projects directory exists
    schema,          \* TRUE iff a non-empty schema document was loaded (self.schema truthy)
    shared_context,  \* the shared-context directory: sequence of assignment files
    clock,           \* the wall clock, in whole seconds (datetime.now() at %S resolution)
    events,          \* history: the assignment records returned by successful assign_task calls
    result,          \* what the last operation returned or raised
    project_dirs,    \* the project directories Foundry OS v1.0 made under projects/
    config_agents,   \* the agents registered in the loaded configuration
    disk,            \* one manifest file that processes write and read at the same time, byte by byte
    creators,        \* the processes writing that file: where each is in its create
    scanner          \* the process scanning the directory: where it is in discover_projects

vars == <<projects_dir, dir_exists, schema, shared_context, clock, events, result,
          project_dirs, config_agents, disk, creators, scanner>>

----------------------------------------------------------------------------
(* Bounds of the model *)

\* longest revenue string enumerated for parse_revenue
MaxLen == 3
\* most manifest files in the store
MaxFiles == 2
\* last clock second
MaxClock == 1
\* most successful assignments
MaxAssign == 2

\* the longest manifest text written in a race, in bytes
MaxDoc == 3

\* the most H1 tags a page has
MaxH1 == 4

\* the bytes a buffered file object hands to one write call (io.DEFAULT_BUFFER_SIZE
\* at the scale of MaxDoc)
BufferSize == 2

----------------------------------------------------------------------------
(* Characters and strings *)

\* ASCII code points of the characters the model uses (Python compares str by code point)
CharCode ==
    (" " :> 32) @@ ("$" :> 36) @@ ("," :> 44) @@ ("-" :> 45) @@ ("." :> 46) @@
    ("/" :> 47) @@ ("0" :> 48) @@ ("1" :> 49) @@ ("2" :> 50) @@ ("3" :> 51) @@
    ("4" :> 52) @@ ("5" :> 53) @@ ("A" :> 65) @@ ("B" :> 66) @@ ("M" :> 77) @@
    ("N" :> 78) @@ ("Z" :> 90) @@ ("_" :> 95) @@ ("a" :> 97) @@ ("b" :> 98) @@
    ("c" :> 99) @@ ("e" :> 101) @@ ("h" :> 104) @@ ("j" :> 106) @@ ("k" :> 107) @@ ("l" :> 108) @@
    ("m" :> 109) @@ ("n" :> 110) @@ ("o" :> 111) @@ ("p" :> 112) @@ ("r" :> 114) @@ ("s" :> 115) @@ ("t" :> 116) @@
    ("u" :> 117) @@ ("w" :> 119) @@ ("y" :> 121) @@ ("z" :> 122)

Chars == DOMAIN CharCode

IsDigit(c) == CharCode[c] >= 48 /\ CharCode[c] <= 57

IsUpper(c) == CharCode[c] >= 65 /\ CharCode[c] <= 90

\* str.lower() on one character
LowerChar(c) ==
    IF IsUpper(c) THEN CHOOSE d \in Chars : CharCode[d] = CharCode[c] + 32 ELSE c

\* str.lower()
Lower(s) == [i \in 1..Len(s) |-> LowerChar(s[i])]

\* str.replace(a, b) for one-character a and b
Replace(s, a, b) == [i \in 1..Len(s) |-> IF s[i] = a THEN b ELSE s[i]]

\* str.replace(a, '') for a one-character a
RECURSIVE Remove(_, _)
Remove(s, a) ==
    IF s = <<>> THEN <<>>
    ELSE IF Head(s) = a THEN Remove(Tail(s), a)
    ELSE <<Head(s)>> \o Remove(Tail(s), a)

\* Python's < on str: lexicographic by code point, a proper prefix is smaller
RECURSIVE StrLess(_, _)
StrLess(a, b) ==
    IF b = <<>> THEN FALSE
    ELSE IF a = <<>> THEN TRUE
    ELSE IF CharCode[Head(a)] < CharCode[Head(b)] THEN TRUE
    ELSE IF CharCode[Head(a)] > CharCode[Head(b)] THEN FALSE
    ELSE StrLess(Tail(a), Tail(b))

\* all strings over alphabet cs of length at most n
RECURSIVE StringsUpTo(_, _)
StringsUpTo(cs, n) ==
    IF n = 0 THEN {<<>>}
    ELSE LET shorter == StringsUpTo(cs, n - 1)
         IN  shorter \cup {<<c>> \o s : c \in cs, s \in {t \in shorter : Len(t) = n - 1}}

----------------------------------------------------------------------------
(* JSON / Python values.  t is the Python type; s holds a str, n an int    *)
(* or a decimal mantissa, e the number of decimal places (value n/10^e).   *)
(* "bigint" is the int 2^n and "bigfloat" the float 2^n, for magnitudes    *)
(* past the model checker's integers.                                      *)

Absent == [t |-> "absent", s |-> <<>>, n |-> 0, e |-> 0, error |-> ""]   \* the key is missing

Null == [t |-> "null", s |-> <<>>, n |-> 0, e |-> 0, error |-> ""]   \* JSON null, Python None

StrV(s) == [t |-> "str", s |-> s, n |-> 0, e |-> 0, error |-> ""]

IntV(n) == [t |-> "int", s |-> <<>>, n |-> n, e |-> 0, error |-> ""]

BigInt(k) == [t |-> "bigint", s |-> <<>>, n |-> k, e |-> 0, error |-> ""]

BigFloat(k) == [t |-> "bigfloat", s |-> <<>>, n |-> k, e |-> 0, error |-> ""]

\* a float with the exact decimal value m / 10^e, trailing zero decimals dropped
RECURSIVE Float(_, _)
Float(m, e) ==
    IF e > 0 /\ m % 10 = 0 THEN Float(m \div 10, e - 1)
    ELSE [t |-> "float", s |-> <<>>, n |-> m, e |-> e, error |-> ""]

\* the exception raised, as a value
Raised(name) == [t |-> "raise", s |-> <<>>, n |-> 0, e |-> 0, error |-> name]

IsRaise(v) == v.t = "raise"

\* dict.get(key, default) on a field that may be missing
Get(v, default) == IF v.t = "absent" THEN default ELSE v

\* Python truthiness of a JSON scalar
Truthy(v) ==
    CASE v.t \in {"absent", "null"} -> FALSE
      [] v.t = "str" -> v.s # <<>>
      [] v.t \in {"int", "float"} -> v.n # 0
      [] OTHER -> TRUE

RECURSIVE Pow10(_)
Pow10(k) == IF k = 0 THEN 1 ELSE 10 * Pow10(k - 1)

\* float addition on exact decimals
FloatAdd(a, b) ==
    LET e == IF a.e > b.e THEN a.e ELSE b.e
    IN  Float(a.n * Pow10(e - a.e) + b.n * Pow10(e - b.e), e)

\* largest binary exponent of a finite double: float(2^k) overflows from k = 1024
FloatMaxExp == 1024

\* float(x) for an int
IntToFloat(v) ==
    IF v.t = "bigint"
    THEN IF v.n >= FloatMaxExp THEN Raised("OverflowError") ELSE BigFloat(v.n)
    ELSE Float(v.n, 0)

\* the digits of s read as a decimal integer
RECURSIVE DigitsValue(_)
DigitsValue(s) ==
    IF s = <<>> THEN 0
    ELSE 10 * DigitsValue(SubSeq(s, 1, Len(s) - 1)) + (CharCode[s[Len(s)]] - 48)

\* str.strip() of spaces
RECURSIVE Strip(_)
Strip(s) ==
    IF s # <<>> /\ Head(s) = " " THEN Strip(Tail(s))
    ELSE IF s # <<>> /\ s[Len(s)] = " " THEN Strip(SubSeq(s, 1, Len(s) - 1))
    ELSE s

NaN == [t |-> "nan", s |-> <<>>, n |-> 0, e |-> 0, error |-> ""]

\* float(s) for a str s over Chars: surrounding spaces are stripped; then an optional
\* '-', then digits with at most one '.', at least one digit, and '_' only between
\* two digits; 'nan' gives NaN; anything else raises ValueError.  (The exponent,
\* '+', 'inf' and 'infinity' forms need characters that are not in Chars.)
ParseFloat(s) ==
    LET u == Strip(s)
        neg == u # <<>> /\ Head(u) = "-"
        body == IF neg THEN Tail(u) ELSE u
        badUnderscore ==
            \E i \in 1..Len(body) :
                /\ body[i] = "_"
                /\ \/ i = 1 \/ i = Len(body)
                   \/ ~IsDigit(body[i - 1]) \/ ~IsDigit(body[i + 1])
        plain == Remove(body, "_")
        dots == {i \in 1..Len(plain) : plain[i] = "."}
        digits == Remove(plain, ".")
    IN  IF Lower(body) = <<"n", "a", "n">> THEN NaN
        ELSE IF \/ badUnderscore
                \/ Cardinality(dots) > 1
                \/ digits = <<>>
                \/ \E i \in 1..Len(digits) : ~IsDigit(digits[i])
        THEN Raised("ValueError")
        ELSE LET e == IF dots = {} THEN 0 ELSE Len(plain) - (CHOOSE i \in dots : TRUE)
                 m == DigitsValue(digits)
             IN  Float(IF neg THEN 0 - m ELSE m, e)

\* re.sub(r'[^\d.-]', '', s)
RECURSIVE CleanRevenue(_)
CleanRevenue(s) ==
    IF s = <<>> THEN <<>>
    ELSE IF IsDigit(Head(s)) \/ Head(s) \in {".", "-"}
         THEN <<Head(s)>> \o CleanRevenue(Tail(s))
         ELSE CleanRevenue(Tail(s))

\* DashboardManager.parse_revenue
parse_revenue(revenue_str) ==
    IF ~Truthy(revenue_str) THEN Float(0, 0)
    ELSE IF revenue_str.t \in {"int", "bigint"} THEN IntToFloat(revenue_str)
    ELSE IF revenue_str.t \in {"float", "bigfloat"} THEN revenue_str
    ELSE LET clean_str == CleanRevenue(revenue_str.s)
         IN  IF clean_str = <<>> THEN Float(0, 0)
             ELSE LET f == ParseFloat(clean_str)
                  IN  IF IsRaise(f) THEN Float(0, 0) ELSE f

----------------------------------------------------------------------------
(* Manifest documents and files *)

\* an optional plain string field (status, priority): has = FALSE when the key is missing
Some(a) == [has |-> TRUE, v |-> a]

Missing == [has |-> FALSE, v |-> ""]

\* dict.get(key, default) on an optional plain string field
GetOr(o, default) == IF o.has THEN o.v ELSE default

\* a manifest document: the keys the aggregators and writers read.  team and
\* tasks.active are sequences (a missing key reads as the empty list).
Manifest(name, status, revenue, team, active) ==
    [projectName |-> name, status |-> status,
     metrics |-> [revenue |-> revenue, users |-> Absent],
     team |-> team, tasks |-> [active |-> active, completed |-> <<>>]]

\* a task entry with a description and an assignee
Task(priority) ==
    [priority |-> priority, description |-> Some("d"), assignedTo |-> Some("alice")]

\* a task entry that has neither description nor assignedTo
TaskOnly(priority) ==
    [priority |-> priority, description |-> Missing, assignedTo |-> Missing]

EmptyDoc == Manifest(Absent, Missing, Absent, <<>>, <<>>)

\* a file of the projects directory.  kind: "obj" (a JSON object), "array" (valid
\* JSON whose top level is not an object), "garbage" (not JSON).  conforms: whether
\* jsonschema.validate accepts the parsed value under the configured schema.
File(file, kind, conforms, doc, mtime) ==
    [file |-> file, kind |-> kind, conforms |-> conforms, doc |-> doc, mtime |-> mtime]

Acme == <<"A", "c", "m", "e">>

acme == <<"a", "c", "m", "e">>

Beta == <<"B", "e", "t", "a">>

beta == <<"b", "e", "t", "a">>

Zeta == <<"Z", "e", "t", "a">>

zeta == <<"z", "e", "t", "a">>

alpha == <<"a", "l", "p", "h", "a">>

Unknown == <<"u", "n", "k", "n", "o", "w", "n">>

\* the manifests a store may hold when the system starts (dropped by hand or
\* written earlier): well-formed ones, and each kind of malformed one
SeedFiles ==
    { File(acme, "obj", TRUE,
           Manifest(StrV(Acme), Some("production"), StrV(<<"$", "1", ",", "0", "0", "0">>),
                    <<"alice">>, <<Task(Some("high")), Task(Missing)>>), 0),
      File(beta, "obj", TRUE,
           Manifest(StrV(Beta), Some("archived"), StrV(<<"$", "5", "0", "0">>),
                    <<"alice">>, <<TaskOnly(Some("low"))>>), 0),
      File(zeta, "obj", TRUE,
           Manifest(StrV(Zeta), Missing, IntV(42), <<"bob", "bob">>, <<>>), 0),
      File(alpha, "obj", FALSE,
           Manifest(StrV(alpha), Some("completed"), StrV(<<"1", "0", "0", "0">>),
                    <<"bob">>, <<>>), 0),
      File(<<"a", "c", "m", "e", "2">>, "obj", TRUE,
           Manifest(StrV(acme), Some("planning"), StrV(<<"N", "/", "A">>), <<>>, <<>>), 0),
      File(<<"5">>, "obj", FALSE,
           Manifest(IntV(5), Some("planning"), Absent, <<>>, <<>>), 0),
      File(<<"n", "o", "n", "e">>, "obj", FALSE,
           Manifest(Absent, Some("production"), StrV(<<"$", "-", "5">>), <<>>, <<>>), 0),
      File(<<"z">>, "obj", TRUE,
           Manifest(StrV(Acme), Some("maintenance"), StrV(<<"$", "5", ".", "5">>),
                    <<"alice", "bob">>, <<Task(Some("critical")), Task(Some("urgent"))>>), 0),
      File(<<"h">>, "obj", TRUE,
           Manifest(StrV(<<"h">>), Some("testing"), BigInt(FloatMaxExp), <<>>, <<>>), 0),
      File(<<"l">>, "array", FALSE, EmptyDoc, 0),
      File(<<"b">>, "garbage", FALSE, EmptyDoc, 0) }

\* the sequences of at most n files with distinct file names
RECURSIVE Stores(_, _)
Stores(files, n) ==
    IF n = 0 THEN {<<>>}
    ELSE LET shorter == Stores(files, n - 1)
         IN  shorter \cup
             { st \in {Append(x, f) : x \in shorter, f \in files} :
                 /\ Len(st) = n
                 /\ \A i, j \in 1..n : i # j => st[i].file # st[j].file }

FileNames(store) == {store[i].file : i \in 1..Len(store)}

----------------------------------------------------------------------------
(* Discovery: FoundryOS.discover_projects and the dashboard's fallback *)

\* what one iteration of the scan loop does with a file: "loaded", or the kind of
\* diagnostic logged ("json": JSONDecodeError, "schema": ValidationError,
\* "load": any other exception, here the TypeError of project_data['_manifest_file']
\* = ... on a value that is not a dict)
LoadOutcome(f, sch) ==
    IF f.kind = "garbage" THEN "json"
    ELSE IF sch /\ ~f.conforms THEN "schema"
    ELSE IF f.kind # "obj" THEN "load"
    ELSE "loaded"

\* a load that loses the team of the document
ProjectWithoutTeam(f, meta) ==
    [manifest_file |-> f.file, last_modified |-> f.mtime, meta |-> meta,
     kind |-> f.kind, doc |-> [f.doc EXCEPT !.team = Absent]]

\* a loaded project: the parsed document plus _manifest_file and _last_modified
\* (meta = FALSE: the fallback attaches neither)
Project(f, meta) ==
    [manifest_file |-> f.file, last_modified |-> f.mtime, meta |-> meta,
     kind |-> f.kind, doc |-> f.doc]

RECURSIVE ScanLoaded(_, _)
ScanLoaded(store, sch) ==
    IF store = <<>> THEN <<>>
    ELSE IF LoadOutcome(Head(store), sch) = "loaded"
         THEN <<Project(Head(store), TRUE)>> \o ScanLoaded(Tail(store), sch)
         ELSE ScanLoaded(Tail(store), sch)

\* a scan that logs the files that are not JSON and no other skipped file
RECURSIVE ScanDiagnosticsOfParseErrors(_, _)
ScanDiagnosticsOfParseErrors(store, sch) ==
    IF store = <<>> THEN <<>>
    ELSE IF Head(store).kind = "garbage"
         THEN <<[file |-> Head(store).file, kind |-> "json"]>>
              \o ScanDiagnosticsOfParseErrors(Tail(store), sch)
         ELSE ScanDiagnosticsOfParseErrors(Tail(store), sch)

\* the diagnostics logged, in scan order: the file named and the kind of message
RECURSIVE ScanDiagnostics(_, _)
ScanDiagnostics(store, sch) ==
    IF store = <<>> THEN <<>>
    ELSE IF LoadOutcome(Head(store), sch) = "loaded"
         THEN ScanDiagnostics(Tail(store), sch)
         ELSE <<[file |-> Head(store).file, kind |-> LoadOutcome(Head(store), sch)]>>
              \o ScanDiagnostics(Tail(store), sch)

\* the sort key: x.get('projectName', '')
SortKey(p) == Get(p.doc.projectName, StrV(<<>>))

\* Python's < on two keys of the same type
KeyLess(a, b) == IF a.t = "str" THEN StrLess(a.s, b.s) ELSE a.n < b.n

\* sorted() raises TypeError when it has to compare keys that Python does not order:
\* a str with an int, or two keys of a type without <
SortRaises(ps) ==
    /\ Len(ps) >= 2
    /\ \/ \E i, j \in 1..Len(ps) : SortKey(ps[i]).t # SortKey(ps[j]).t
       \/ \E i \in 1..Len(ps) : SortKey(ps[i]).t \notin {"str", "int"}

\* the place of x in an ascending list: after every element that is not greater
RECURSIVE Insert(_, _)
Insert(sorted, x) ==
    IF sorted = <<>> THEN <<x>>
    ELSE IF KeyLess(SortKey(x), SortKey(Head(sorted))) THEN <<x>> \o sorted
    ELSE <<Head(sorted)>> \o Insert(Tail(sorted), x)

\* sorted(projects, key=...): stable, ascending
RECURSIVE SortedByName(_)
SortedByName(ps) ==
    IF ps = <<>> THEN <<>>
    ELSE Insert(SortedByName(SubSeq(ps, 1, Len(ps) - 1)), ps[Len(ps)])

\* FoundryOS.discover_projects (foundry_v11): raised is "" when it returns
discover_projects(store, exists, sch) ==
    IF ~exists THEN [raised |-> "", projects |-> <<>>, diagnostics |-> <<>>]
    ELSE LET loaded == ScanLoaded(store, sch)
             diags == ScanDiagnostics(store, sch)
         IN  IF SortRaises(loaded)
             THEN [raised |-> "TypeError", projects |-> <<>>, diagnostics |-> diags]
             ELSE [raised |-> "", projects |-> SortedByName(loaded), diagnostics |-> diags]

\* the fallback FoundryOS of the dashboard (used when foundry_v11 cannot be
\* imported): every file that parses is appended as it is, in scan order
RECURSIVE FallbackScan(_)
FallbackScan(store) ==
    IF store = <<>> THEN <<>>
    ELSE IF Head(store).kind = "garbage" THEN FallbackScan(Tail(store))
    ELSE <<Project(Head(store), FALSE)>> \o FallbackScan(Tail(store))

fallback_discover_projects(store, exists) ==
    IF ~exists THEN [raised |-> "", projects |-> <<>>, diagnostics |-> <<>>]
    ELSE [raised |-> "", projects |-> FallbackScan(store), diagnostics |-> <<>>]

----------------------------------------------------------------------------
(* Aggregation: FoundryOS.get_empire_status and DashboardManager.get_empire_analytics *)

\* a filter that takes a missing status for a closed one
IsActiveMissingClosed(p) ==
    p.doc.status.has /\ p.doc.status.v \notin {"archived", "completed"}

\* project.get('status') not in ['archived', 'completed']
IsActive(p) == ~(p.doc.status.has /\ p.doc.status.v \in {"archived", "completed"})

RECURSIVE CountActive(_)
CountActive(ps) ==
    IF ps = <<>> THEN 0
    ELSE (IF IsActive(Head(ps)) THEN 1 ELSE 0) + CountActive(Tail(ps))

\* d[k] = d.get(k, 0) + 1 on a dict d
Increment(d, k) ==
    IF k \in DOMAIN d THEN [d EXCEPT ![k] = @ + 1] ELSE (k :> 1) @@ d

\* the empty dict
EmptyDict == [k \in {} |-> 0]

\* a count that passes over the projects without a status
RECURSIVE StatusCountsOfPresent(_, _)
StatusCountsOfPresent(ps, d) ==
    IF ps = <<>> THEN d
    ELSE StatusCountsOfPresent(Tail(ps),
                               IF Head(ps).doc.status.has
                               THEN Increment(d, Head(ps).doc.status.v) ELSE d)

\* status_counts: one increment per project, under project.get('status', 'unknown')
RECURSIVE StatusCounts(_, _)
StatusCounts(ps, d) ==
    IF ps = <<>> THEN d
    ELSE StatusCounts(Tail(ps), Increment(d, GetOr(Head(ps).doc.status, "unknown")))

\* one increment per entry of a team list
RECURSIVE CountTeam(_, _)
CountTeam(team, d) ==
    IF team = <<>> THEN d ELSE CountTeam(Tail(team), Increment(d, Head(team)))

\* agent_workload: the team entries of the projects that are not archived or completed
RECURSIVE AgentWorkload(_, _)
AgentWorkload(ps, d) ==
    IF ps = <<>> THEN d
    ELSE AgentWorkload(Tail(ps),
                       IF IsActive(Head(ps)) THEN CountTeam(Head(ps).doc.team, d) ELSE d)

\* one increment per active task, under task.get('priority', 'medium')
RECURSIVE CountTasks(_, _)
CountTasks(tasks, d) ==
    IF tasks = <<>> THEN d
    ELSE CountTasks(Tail(tasks), Increment(d, GetOr(Head(tasks).priority, "medium")))

\* task_distribution starts as {'high': 0, 'medium': 0, 'low': 0, 'critical': 0}
TaskSeed == ("high" :> 0) @@ ("medium" :> 0) @@ ("low" :> 0) @@ ("critical" :> 0)

\* a count that takes the active tasks of every project, archived or not
RECURSIVE TaskDistributionOfAll(_, _)
TaskDistributionOfAll(ps, d) ==
    IF ps = <<>> THEN d
    ELSE TaskDistributionOfAll(Tail(ps), CountTasks(Head(ps).doc.tasks.active, d))

\* task_distribution: the active tasks of the projects that are not archived or completed
RECURSIVE TaskDistribution(_, _)
TaskDistribution(ps, d) ==
    IF ps = <<>> THEN d
    ELSE TaskDistribution(Tail(ps),
                          IF IsActive(Head(ps))
                          THEN CountTasks(Head(ps).doc.tasks.active, d) ELSE d)

\* get_empire_status's revenue of one project: a float when the project is counted,
\* Absent when it is skipped, a raise when revenue_str has no startswith
CliRevenue(p) ==
    LET revenue_str == Get(p.doc.metrics.revenue, StrV(<<"$", "0">>))
    IN  IF ~Truthy(revenue_str) THEN Absent
        ELSE IF revenue_str.t # "str" THEN Raised("AttributeError")
        ELSE IF Head(revenue_str.s) # "$" THEN Absent
        ELSE LET f == ParseFloat(Remove(Remove(revenue_str.s, "$"), ","))
             IN  IF IsRaise(f) THEN Absent ELSE f

\* get_empire_analytics's revenue of one project
DashRevenue(p) == parse_revenue(Get(p.doc.metrics.revenue, IntV(0)))

\* the sum of the floats of a sequence of values (Absent entries add nothing)
RECURSIVE SumRevenue(_)
SumRevenue(vs) ==
    IF vs = <<>> THEN Float(0, 0)
    ELSE IF Head(vs).t = "float" THEN FloatAdd(Head(vs), SumRevenue(Tail(vs)))
    ELSE SumRevenue(Tail(vs))

\* the exception that ends a loop over values, "" when none raises
FirstRaise(vs) ==
    IF \E i \in 1..Len(vs) : IsRaise(vs[i])
    THEN vs[CHOOSE i \in 1..Len(vs) :
                IsRaise(vs[i]) /\ \A j \in 1..(i - 1) : ~IsRaise(vs[j])].error
    ELSE ""

\* the aggregation result when the aggregator raises
AggRaised(error) ==
    [raised |-> error, total_projects |-> 0, active_projects |-> 0,
     total_revenue |-> Float(0, 0), revenue_projects |-> <<>>,
     status_distribution |-> EmptyDict, agent_workload |-> EmptyDict,
     task_distribution |-> EmptyDict, has_task_distribution |-> FALSE,
     revenue_projects_type |-> "list", projects |-> <<>>]

\* the dashboard's revenue_projects entries: the projects with revenue > 0
RECURSIVE RevenueProjects(_)
RevenueProjects(ps) ==
    IF ps = <<>> THEN <<>>
    ELSE LET p == Head(ps)
             revenue == DashRevenue(p)
         IN  IF revenue.t = "float" /\ revenue.n > 0
             THEN <<[name |-> Get(p.doc.projectName, StrV(Unknown)),
                     revenue |-> revenue,
                     status |-> GetOr(p.doc.status, "unknown"),
                     users |-> Get(p.doc.metrics.users, IntV(0))]>>
                  \o RevenueProjects(Tail(ps))
             ELSE RevenueProjects(Tail(ps))

\* FoundryOS.get_empire_status on what discover_projects returned or raised.
\* revenue_projects_type is the Python type of revenue_projects: a count here, the
\* list of entries in get_empire_analytics.
get_empire_status(d) ==
    IF d.raised # "" THEN AggRaised(d.raised)
    ELSE LET projects == d.projects
             revenues == [i \in 1..Len(projects) |-> CliRevenue(projects[i])]
         IN  IF FirstRaise(revenues) # "" THEN AggRaised(FirstRaise(revenues))
             ELSE [raised |-> "",
                   total_projects |-> Len(projects),
                   active_projects |-> CountActive(projects),
                   total_revenue |-> SumRevenue(revenues),
                   revenue_projects |->
                       Len(SelectSeq(revenues, LAMBDA v : v.t = "float")),
                   status_distribution |-> StatusCounts(projects, EmptyDict),
                   agent_workload |-> AgentWorkload(projects, EmptyDict),
                   task_distribution |-> EmptyDict,
                   has_task_distribution |-> FALSE,
                   revenue_projects_type |-> "int",
                   projects |-> projects]

\* DashboardManager.get_empire_analytics on what self.foundry.discover_projects
\* returned or raised (growth_data, which no other part reads, is left out)
get_empire_analytics(d) ==
    IF d.raised # "" THEN AggRaised(d.raised)
    ELSE LET projects == d.projects
             revenues == [i \in 1..Len(projects) |-> DashRevenue(projects[i])]
         IN  IF \E i \in 1..Len(projects) : projects[i].kind # "obj"
             THEN AggRaised("AttributeError")
             ELSE IF FirstRaise(revenues) # "" THEN AggRaised(FirstRaise(revenues))
             ELSE [raised |-> "",
                   total_projects |-> Len(projects),
                   active_projects |-> CountActive(projects),
                   total_revenue |-> SumRevenue(revenues),
                   revenue_projects |-> RevenueProjects(projects),
                   status_distribution |-> StatusCounts(projects, EmptyDict),
                   agent_workload |-> AgentWorkload(projects, EmptyDict),
                   task_distribution |-> TaskDistribution(projects, TaskSeed),
                   has_task_distribution |-> TRUE,
                   revenue_projects_type |-> "list",
                   projects |-> projects]

----------------------------------------------------------------------------
(* Lookup and the writers *)

\* FoundryOS.find_project on what discover_projects returned: the first project
\* whose projectName.lower() equals project_name.lower(); found = FALSE is None.
\* A projectName that is not a str met before a match raises AttributeError.
RECURSIVE FindIn(_, _)
FindIn(ps, project_name) ==
    IF ps = <<>> THEN [raised |-> "", found |-> FALSE, project |-> Project(File(<<>>, "obj", FALSE, EmptyDoc, 0), TRUE)]
    ELSE LET key == Get(Head(ps).doc.projectName, StrV(<<>>))
         IN  IF key.t # "str"
             THEN [raised |-> "AttributeError", found |-> FALSE, project |-> Head(ps)]
             ELSE IF Lower(key.s) = Lower(project_name)
             THEN [raised |-> "", found |-> TRUE, project |-> Head(ps)]
             ELSE FindIn(Tail(ps), project_name)

find_project(d, project_name) ==
    IF d.raised # ""
    THEN [raised |-> d.raised, found |-> FALSE, project |-> Project(File(<<>>, "obj", FALSE, EmptyDoc, 0), TRUE)]
    ELSE FindIn(d.projects, project_name)

\* the file-name key of create_project_from_manifest and of the upload:
\* project_name.lower().replace(' ', '_')
ProjectId(project_name) == Replace(Lower(project_name), " ", "_")

\* the file-name key of the dashboard's Create Project form:
\* project_name.lower().replace(' ', '_').replace('-', '_')
FormProjectId(project_name) == Replace(Replace(Lower(project_name), " ", "_"), "-", "_")

\* a write that leaves the written file as the only file of the store
WriteFileAlone(store, f) == <<f>>

\* the store after open(path, 'w') and json.dump: a file of that name is
\* overwritten in place, a new one is appended to the scan order
WriteFile(store, f) ==
    IF f.file \in FileNames(store)
    THEN [i \in 1..Len(store) |-> IF store[i].file = f.file THEN f ELSE store[i]]
    ELSE Append(store, f)

\* the agents registered in the default configuration (get_default_config:
\* 'agents': {}), which is the configuration when there is no foundry.yaml
ConfigAgents == {}

\* the shared-context directory after open(shared_file, 'w') and json.dump
WriteShared(dir, f) == {g \in dir : g.file # f.file} \cup {f}

----------------------------------------------------------------------------
(* Inputs of the operations *)

MyApp == <<"M", "y", " ", "A", "p", "p">>

my_app == <<"m", "y", "-", "a", "p", "p">>

Ghost == <<"Z", "z">>

\* the manifest files handed to `foundry new --manifest` and to the upload.
\* kind "nofile": the path does not exist.
ManifestInputs ==
    { File(<<>>, "obj", TRUE,
           Manifest(StrV(Acme), Some("development"), StrV(<<"$", "5">>), <<"bob">>, <<>>), 0),
      File(<<>>, "obj", TRUE,
           Manifest(StrV(MyApp), Some("planning"), Absent, <<>>, <<>>), 0),
      File(<<>>, "obj", TRUE,
           Manifest(StrV(my_app), Some("planning"), Absent, <<>>, <<>>), 0),
      File(<<>>, "obj", TRUE,
           Manifest(StrV(Beta), Some("development"), Absent, <<"bob">>,
                    <<Task(Some("high"))>>), 0),
      File(<<>>, "obj", FALSE,
           Manifest(Absent, Some("planning"), Absent, <<>>, <<>>), 0),
      File(<<>>, "obj", FALSE,
           Manifest(IntV(5), Missing, Absent, <<>>, <<>>), 0),
      File(<<>>, "array", FALSE, EmptyDoc, 0),
      File(<<>>, "garbage", FALSE, EmptyDoc, 0),
      File(<<>>, "nofile", FALSE, EmptyDoc, 0) }

\* the names typed into the Create Project form (an empty name does nothing)
FormNames == {Acme, MyApp, my_app}

\* the form's status choices used
FormStatuses == {"planning"}

\* the path from the shared-context directory to the projects directory
ProjectsPrefix == <<".", ".", "/", "p", "r", "o", "j", "e", "c", "t", "s", "/">>

\* a project name that is a relative path
Dotted == ProjectsPrefix \o <<"a">>

\* the arguments of assign_task
AssignNames == {acme, Beta, Ghost, Dotted}

Tasks == {"t1", "t2"}

Agents == {"alice", "mallory"}

\* the revenue values handed to parse_revenue: every string of at most MaxLen
\* characters over RevenueChars, the documented examples, and numbers
RevenueChars == {"$", ",", "1", "5", ".", "-", "N"}

RevenueInputs ==
    {StrV(s) : s \in StringsUpTo(RevenueChars, MaxLen)} \cup
    { StrV(<<"$", "1", ",", "2", "3", "4", ".", "5", "0">>), StrV(<<"N", "/", "A">>),
      Null, IntV(42), IntV(0), IntV(-5), Float(125, 1),
      BigInt(FloatMaxExp - 1), BigInt(FloatMaxExp) }

----------------------------------------------------------------------------
(* One manifest file under concurrent processes.  The text json.dump produces
   for a document is a sequence of bytes, each tagged with the writer whose
   document it belongs to, its position, and whether it is the text's last
   byte (the closing brace). *)

Writers == {"A", "B"}

Bytes(w, n) == [k \in 1..n |-> [w |-> w, i |-> k, last |-> k = n]]

\* a byte of a hole: a write past the end of a file fills the gap with NULs
Nul == [w |-> "nul", i |-> 0, last |-> FALSE]

Min(a, b) == IF a < b THEN a ELSE b

\* write(fd, chunk) at the writer's own offset: bytes already there are
\* replaced, bytes after the chunk stay
WriteAt(bytes, off, chunk) ==
    LET padded == IF Len(bytes) < off
                  THEN bytes \o [k \in 1..(off - Len(bytes)) |-> Nul]
                  ELSE bytes
    IN  SubSeq(padded, 1, off) \o chunk \o SubSeq(padded, off + Len(chunk) + 1, Len(padded))

\* the start of the text of one document
IsDocPrefix(buf) ==
    /\ buf # <<>>
    /\ buf[1].w # "nul"
    /\ \A k \in 1..Len(buf) : buf[k].w = buf[1].w /\ buf[k].i = k

\* the whole text of one document
IsDoc(buf) == IsDocPrefix(buf) /\ buf[Len(buf)].last

\* a parser that takes the start of a text for a document
ParsePrefixes(buf) ==
    IF IsDoc(buf) THEN {[kind |-> "doc", w |-> buf[1].w]}
    ELSE IF IsDocPrefix(buf) THEN {[kind |-> "doc", w |-> "partial"]}
    ELSE {[kind |-> "JSONDecodeError", w |-> ""]}

\* what json.load can make of the bytes read: the document when they are the whole
\* text of one; JSONDecodeError when they are empty or stop inside a text; after
\* a whole text, more bytes are 'Extra data' unless they are all white space; of
\* any other bytes the outcome depends on the text
ParseOutcomes(buf) ==
    LET error == [kind |-> "JSONDecodeError", w |-> ""]
    IN  IF buf = <<>> THEN {error}
        ELSE IF IsDoc(buf) THEN {[kind |-> "doc", w |-> buf[1].w]}
        ELSE IF IsDocPrefix(buf) THEN {error}
        ELSE IF \E n \in 1..(Len(buf) - 1) : IsDoc(SubSeq(buf, 1, n))
             THEN {error, [kind |-> "doc", w |-> buf[1].w]}
        ELSE {error, [kind |-> "doc", w |-> "mixed"]}

IdleCreator == [pc |-> "idle", len |-> 0, off |-> 0]

IdleScanner ==
    [pc |-> "idle", bufsize |-> 0, buf |-> <<>>, outcome |-> "", doc |-> "", logged |-> 0]

\* no file is under concurrent access
NoRace ==
    /\ disk = [exists |-> FALSE, bytes |-> <<>>]
    /\ creators = [w \in Writers |-> IdleCreator]
    /\ scanner = IdleScanner

\* target_file.exists() of create_project_from_manifest
CreatorCheck(w) ==
    /\ creators[w].pc = "check"
    /\ creators' = [creators EXCEPT ![w].pc = IF disk.exists THEN "already exists" ELSE "open"]
    /\ UNCHANGED <<disk, scanner, projects_dir, dir_exists, schema, shared_context, clock, events, result, project_dirs, config_agents>>

\* open(target_file, 'w'): the file is created, or cut to no bytes
CreatorOpen(w) ==
    /\ creators[w].pc = "open"
    /\ disk' = [exists |-> TRUE, bytes |-> <<>>]
    /\ creators' = [creators EXCEPT ![w].pc = "dump", ![w].off = 0]
    /\ UNCHANGED <<scanner, projects_dir, dir_exists, schema, shared_context, clock, events, result, project_dirs, config_agents>>

\* json.dump and the close of the with block: the text reaches the file one
\* buffer at a time, the last one at the close, after which the create returns
CreatorWrite(w) ==
    /\ creators[w].pc = "dump"
    /\ LET c == creators[w]
           n == Min(BufferSize, c.len - c.off)
           chunk == SubSeq(Bytes(w, c.len), c.off + 1, c.off + n)
       IN  /\ disk' = [disk EXCEPT !.bytes = WriteAt(disk.bytes, c.off, chunk)]
           /\ creators' = [creators EXCEPT ![w].off = c.off + n,
                                           ![w].pc = IF c.off + n = c.len THEN "done" ELSE "dump"]
    /\ UNCHANGED <<scanner, projects_dir, dir_exists, schema, shared_context, clock, events, result, project_dirs, config_agents>>

\* self.projects_dir.glob("*.json"): the file is listed when it exists
ScanGlob ==
    /\ scanner.pc = "glob"
    /\ scanner' = IF disk.exists
                  THEN [scanner EXCEPT !.pc = "open"]
                  ELSE [scanner EXCEPT !.pc = "sort", !.outcome = "not seen"]
    /\ UNCHANGED <<disk, creators, projects_dir, dir_exists, schema, shared_context, clock, events, result, project_dirs, config_agents>>

\* open(manifest_file, 'r') and the start of f.read(): the buffer is sized one
\* byte over the size fstat reports
ScanOpen ==
    /\ scanner.pc = "open"
    /\ scanner' = [scanner EXCEPT !.pc = "read", !.bufsize = Len(disk.bytes) + 1]
    /\ UNCHANGED <<disk, creators, projects_dir, dir_exists, schema, shared_context, clock, events, result, project_dirs, config_agents>>

\* one read call of f.read(): the buffer grows when it is full, the call returns
\* the bytes the file holds past the reader's offset, as many as fit, and no
\* bytes ends the reading
ScanRead ==
    /\ scanner.pc = "read"
    /\ LET got == Len(scanner.buf)
           bufsize == IF got >= scanner.bufsize THEN got + BufferSize ELSE scanner.bufsize
           n == Min(bufsize - got, IF Len(disk.bytes) > got THEN Len(disk.bytes) - got ELSE 0)
       IN  scanner' = IF n = 0
                      THEN [scanner EXCEPT !.pc = "parse"]
                      ELSE [scanner EXCEPT !.bufsize = bufsize,
                                           !.buf = scanner.buf \o SubSeq(disk.bytes, got + 1, got + n)]
    /\ UNCHANGED <<disk, creators, projects_dir, dir_exists, schema, shared_context, clock, events, result, project_dirs, config_agents>>

\* json.load on what was read: the document is appended, or the except branch
\* logs the file and the loop goes on
ScanParse ==
    /\ scanner.pc = "parse"
    /\ \E o \in ParseOutcomes(scanner.buf) :
         scanner' = IF o.kind = "doc"
                    THEN [scanner EXCEPT !.pc = "sort", !.outcome = "returned", !.doc = o.w]
                    ELSE [scanner EXCEPT !.pc = "sort", !.outcome = "skipped", !.logged = 1]
    /\ UNCHANGED <<disk, creators, projects_dir, dir_exists, schema, shared_context, clock, events, result, project_dirs, config_agents>>

\* the rest of the scan: the other files of the directory, and the return
ScanReturn ==
    /\ scanner.pc = "sort"
    /\ scanner' = [scanner EXCEPT !.pc = "done"]
    /\ LET d == discover_projects(projects_dir, dir_exists, schema)
       IN  result' = [op |-> "discover_projects", args |-> [fallback |-> FALSE],
                      raised |-> d.raised, value |-> d]
    /\ UNCHANGED <<disk, creators, projects_dir, dir_exists, schema, shared_context, clock, events, project_dirs, config_agents>>

----------------------------------------------------------------------------
(* The state machine *)

NoResult == [op |-> "none", args |-> <<>>, raised |-> "", value |-> <<>>]

\* the system starts with a store drawn from seeds; a missing directory holds nothing
InitWith(seeds) ==
    /\ projects_dir \in Stores(seeds, MaxFiles)
    /\ dir_exists \in BOOLEAN
    /\ ~dir_exists => projects_dir = <<>>
    /\ schema \in BOOLEAN
    /\ shared_context = {}
    /\ clock = 0
    /\ events = <<>>
    /\ result = NoResult
    /\ project_dirs = {}
    /\ config_agents = ConfigAgents
    /\ NoRace

\* FoundryOS.ensure_directories
EnsureDirectories ==
    /\ ~dir_exists
    /\ dir_exists' = TRUE
    /\ result' = [op |-> "ensure_directories", args |-> <<>>, raised |-> "", value |-> <<>>]
    /\ UNCHANGED <<disk, creators, scanner, project_dirs, config_agents, projects_dir, schema, shared_context, clock, events>>

\* the clock reaches the next second
Tick ==
    /\ clock < MaxClock
    /\ clock' = clock + 1
    /\ UNCHANGED <<disk, creators, scanner, project_dirs, config_agents, projects_dir, dir_exists, schema, shared_context, events, result>>

\* a call of FoundryOS.discover_projects
DiscoverProjects ==
    /\ LET d == discover_projects(projects_dir, dir_exists, schema)
       IN  result' = [op |-> "discover_projects", args |-> [fallback |-> FALSE],
                      raised |-> d.raised, value |-> d]
    /\ UNCHANGED <<disk, creators, scanner, project_dirs, config_agents, projects_dir, dir_exists, schema, shared_context, clock, events>>

\* a call of the fallback FoundryOS.discover_projects of the dashboard
FallbackDiscoverProjects ==
    /\ LET d == fallback_discover_projects(projects_dir, dir_exists)
       IN  result' = [op |-> "discover_projects", args |-> [fallback |-> TRUE],
                      raised |-> d.raised, value |-> d]
    /\ UNCHANGED <<disk, creators, scanner, project_dirs, config_agents, projects_dir, dir_exists, schema, shared_context, clock, events>>

\* a call of FoundryOS.get_empire_status
GetEmpireStatus ==
    /\ LET r == get_empire_status(discover_projects(projects_dir, dir_exists, schema))
       IN  result' = [op |-> "get_empire_status", args |-> [fallback |-> FALSE],
                      raised |-> r.raised, value |-> r]
    /\ UNCHANGED <<disk, creators, scanner, project_dirs, config_agents, projects_dir, dir_exists, schema, shared_context, clock, events>>

\* a call of FoundryOS.find_project
FindProject ==
    /\ \E project_name \in AssignNames :
         LET f == find_project(discover_projects(projects_dir, dir_exists, schema),
                               project_name)
         IN  result' = [op |-> "find_project",
                        args |-> [fallback |-> FALSE, project_name |-> project_name],
                        raised |-> f.raised, value |-> f]
    /\ UNCHANGED <<disk, creators, scanner, project_dirs, config_agents, projects_dir, dir_exists, schema, shared_context, clock, events>>

\* the exception the detail line of one project raises ("" for none):
\* project['projectName'], and with --all task['description'] and
\* task['assignedTo'] of the first three active tasks
ShowProject(p, all) ==
    LET active == p.doc.tasks.active
    IN  IF p.doc.projectName = Absent THEN "KeyError"
        ELSE IF all /\ \E k \in 1..Len(active) :
                           /\ k <= 3
                           /\ ~active[k].description.has \/ ~active[k].assignedTo.has
             THEN "KeyError"
        ELSE ""

\* the first exception of the loop over the projects, and the projects shown before it
RECURSIVE ShowProjects(_, _, _)
ShowProjects(ps, all, shown) ==
    IF ps = <<>> THEN [raised |-> "", shown |-> shown]
    ELSE IF ShowProject(Head(ps), all) # ""
         THEN [raised |-> ShowProject(Head(ps), all), shown |-> shown]
         ELSE ShowProjects(Tail(ps), all, shown + 1)

\* the CLI command `foundry status [--all] [--summary]`
CliStatus ==
    /\ \E all \in BOOLEAN, summary \in BOOLEAN :
         LET empire_status ==
                 get_empire_status(discover_projects(projects_dir, dir_exists, schema))
             shown == IF empire_status.raised # "" \/ summary
                      THEN [raised |-> empire_status.raised, shown |-> 0]
                      ELSE ShowProjects(empire_status.projects, all, 0)
         IN  result' = [op |-> "status", args |-> [all |-> all, summary |-> summary],
                        raised |-> shown.raised, value |-> shown]
    /\ UNCHANGED <<disk, creators, scanner, project_dirs, config_agents, projects_dir, dir_exists, schema, shared_context, clock, events>>

\* the CLI command `foundry projects`
CliProjects ==
    /\ LET projects == discover_projects(projects_dir, dir_exists, schema)
           shown == IF projects.raised # ""
                    THEN [raised |-> projects.raised, shown |-> 0]
                    ELSE ShowProjects(projects.projects, FALSE, 0)
       IN  result' = [op |-> "projects", args |-> <<>>,
                      raised |-> shown.raised, value |-> shown]
    /\ UNCHANGED <<disk, creators, scanner, project_dirs, config_agents, projects_dir, dir_exists, schema, shared_context, clock, events>>

\* an aggregation that deletes the files of the directory it has read
GetEmpireAnalyticsClearing ==
    /\ result' = [op |-> "get_empire_analytics", args |-> [fallback |-> FALSE],
                  raised |-> "",
                  value |-> get_empire_analytics(discover_projects(<<>>, TRUE, schema))]
    /\ projects_dir' = <<>>
    /\ dir_exists' = TRUE
    /\ UNCHANGED <<disk, creators, scanner, project_dirs, config_agents, schema, shared_context, clock, events>>

\* DashboardManager() followed by get_empire_analytics(), as the dashboard does on
\* every render: the constructor calls ensure_directories; fallback tells whether
\* foundry_v11 could be imported
GetEmpireAnalytics ==
    /\ \E fallback \in BOOLEAN :
         LET d == IF fallback THEN fallback_discover_projects(projects_dir, TRUE)
                  ELSE discover_projects(projects_dir, TRUE, schema)
             r == get_empire_analytics(d)
         IN  result' = [op |-> "get_empire_analytics", args |-> [fallback |-> fallback],
                        raised |-> r.raised, value |-> r]
    /\ dir_exists' = TRUE
    /\ UNCHANGED <<disk, creators, scanner, project_dirs, config_agents, projects_dir, schema, shared_context, clock, events>>


\* what create_project_from_manifest does with a manifest file, before any write:
\* the exception it raises ("" when it goes on to write) and the target file name
CreateOutcome(m, store, exists, sch) ==
    LET project_name == Get(m.doc.projectName, StrV(Unknown))
    IN  IF m.kind = "nofile" THEN [raised |-> "Manifest file not found", target |-> <<>>]
        ELSE IF m.kind = "garbage" THEN [raised |-> "JSONDecodeError", target |-> <<>>]
        ELSE IF sch /\ ~m.conforms THEN [raised |-> "ValidationError", target |-> <<>>]
        ELSE IF m.kind # "obj" \/ project_name.t # "str"
             THEN [raised |-> "AttributeError", target |-> <<>>]
        ELSE IF exists /\ ProjectId(project_name.s) \in FileNames(store)
             THEN [raised |-> "already exists", target |-> ProjectId(project_name.s)]
        ELSE IF ~exists
             THEN [raised |-> "FileNotFoundError", target |-> ProjectId(project_name.s)]
        ELSE [raised |-> "", target |-> ProjectId(project_name.s)]

\* FoundryOS.create_project_from_manifest (`foundry new --manifest`)
CreateProjectFromManifest ==
    /\ \E m \in ManifestInputs :
         LET o == CreateOutcome(m, projects_dir, dir_exists, schema)
         IN  /\ o.raised = "" => Len(projects_dir) < MaxFiles
             /\ projects_dir' =
                    IF o.raised = ""
                    THEN WriteFile(projects_dir, File(o.target, "obj", m.conforms, m.doc, clock))
                    ELSE projects_dir
             /\ result' = [op |-> "create_project_from_manifest", args |-> m,
                           raised |-> o.raised,
                           value |-> [target |-> o.target]]
    /\ UNCHANGED <<disk, creators, scanner, project_dirs, config_agents, dir_exists, schema, shared_context, clock, events>>

\* the manifest the Create Project form builds
FormManifest(project_name, status) ==
    Manifest(StrV(project_name), Some(status), Absent, <<>>, <<>>)

\* the dashboard's Create Project form, submitted with a non-empty name: the
\* manifest is written with open(manifest_path, 'w').  The sidebar has built a
\* DashboardManager before, so the directory exists.
DashboardCreateProject ==
    /\ \E project_name \in FormNames, status \in FormStatuses, conforms \in BOOLEAN :
         LET target == FormProjectId(project_name)
         IN  /\ target \notin FileNames(projects_dir) => Len(projects_dir) < MaxFiles
             /\ projects_dir' =
                    WriteFile(projects_dir,
                              File(target, "obj", conforms,
                                   FormManifest(project_name, status), clock))
             /\ result' = [op |-> "dashboard_create_project", args |-> project_name,
                           raised |-> "",
                           value |-> [target |-> target]]
    /\ dir_exists' = TRUE
    /\ UNCHANGED <<disk, creators, scanner, project_dirs, config_agents, schema, shared_context, clock, events>>

\* what the upload does with the uploaded file before the write: the error shown
\* ("" when it goes on to write) and the target file name
UploadOutcome(m) ==
    LET project_name == Get(m.doc.projectName, StrV(Unknown))
    IN  IF m.kind = "garbage" THEN [raised |-> "JSONDecodeError", target |-> <<>>]
        ELSE IF m.kind # "obj" \/ project_name.t # "str"
             THEN [raised |-> "AttributeError", target |-> <<>>]
        ELSE [raised |-> "", target |-> ProjectId(project_name.s)]

\* the dashboard's Upload Manifest: the uploaded document is written with
\* open(save_path, "w"); any exception is shown with st.error
DashboardUpload ==
    /\ \E m \in {x \in ManifestInputs : x.kind # "nofile"} :
         LET o == UploadOutcome(m)
         IN  /\ (o.raised = "" /\ o.target \notin FileNames(projects_dir))
                    => Len(projects_dir) < MaxFiles
             /\ projects_dir' =
                    IF o.raised = ""
                    THEN WriteFile(projects_dir, File(o.target, "obj", m.conforms, m.doc, clock))
                    ELSE projects_dir
             /\ result' = [op |-> "dashboard_upload", args |-> m, raised |-> o.raised,
                           value |-> [target |-> o.target]]
    /\ dir_exists' = TRUE
    /\ UNCHANGED <<disk, creators, scanner, project_dirs, config_agents, schema, shared_context, clock, events>>

\* whether hub_dir / 'shared-context' / f'{id}_{task_id}.json' is a file of the
\* projects directory: the name starts with '../projects/' and has no further '/'
EscapesToProjects(id) ==
    /\ Len(id) > Len(ProjectsPrefix)
    /\ SubSeq(id, 1, Len(ProjectsPrefix)) = ProjectsPrefix
    /\ \A i \in (Len(ProjectsPrefix) + 1)..Len(id) : id[i] # "/"

\* the decimal digit of a second of the clock
DigitChar(n) == <<"0", "1", "2", "3", "4", "5">>[n + 1]

\* the name such a file has in the projects directory
EscapedFileName(id, now) ==
    SubSeq(id, Len(ProjectsPrefix) + 1, Len(id)) \o <<"_", DigitChar(now)>>

\* an assignment record read as a manifest: of the keys the aggregators read it
\* has only 'status'
AssignmentDoc == Manifest(Absent, Some("assigned"), Absent, <<>>, <<>>)

\* the assignment record assign_task builds at second now
Assignment(task, project_name, agent, now) ==
    [id |-> now, task |-> task, project |-> project_name, agent |-> agent,
     status |-> "assigned", created_at |-> now, completed_at |-> Null, result |-> Null]

\* the name of the assignment file: f'{project_name.lower().replace(" ", "_")}_{task_id}',
\* task_id being 'task_' and the time to the second
SharedFileName(project_name, now) == [project |-> ProjectId(project_name), stamp |-> now]

\* FoundryOS.assign_task.  shared_context holds the files by the names opened
\* under shared-context/; a name that leads into the projects directory is a file
\* of that directory as well.
AssignTask ==
    /\ Len(events) < MaxAssign
    /\ \E task \in Tasks, project_name \in AssignNames, agent \in Agents :
         LET found == find_project(discover_projects(projects_dir, dir_exists, schema),
                                   project_name)
             raised == IF found.raised # "" THEN found.raised
                       ELSE IF ~found.found THEN "not found" ELSE ""
             warning == /\ raised = ""
                        /\ agent \notin config_agents
                        /\ \A i \in 1..Len(found.project.doc.team) :
                               found.project.doc.team[i] # agent
             assignment == Assignment(task, project_name, agent, clock)
         IN  /\ shared_context' =
                    IF raised = ""
                    THEN WriteShared(shared_context,
                                     [file |-> SharedFileName(project_name, clock),
                                      content |-> assignment])
                    ELSE shared_context
             /\ projects_dir' =
                    IF raised = "" /\ EscapesToProjects(ProjectId(project_name))
                    THEN WriteFile(projects_dir,
                                   File(EscapedFileName(ProjectId(project_name), clock),
                                        "obj", FALSE, AssignmentDoc, clock))
                    ELSE projects_dir
             /\ events' = IF raised = "" THEN Append(events, assignment) ELSE events
             /\ result' = [op |-> "assign_task",
                           args |-> [task |-> task, project |-> project_name, agent |-> agent],
                           raised |-> raised,
                           value |-> [assignment |-> assignment, warning |-> warning]]
    /\ UNCHANGED <<disk, creators, scanner, project_dirs, config_agents, dir_exists, schema, clock>>

\* a call of DashboardManager.parse_revenue on the pending input
ParseRevenue ==
    /\ result.op = "input"
    /\ LET r == parse_revenue(result.args)
       IN  result' = [op |-> "parse_revenue", args |-> result.args,
                      raised |-> r.error, value |-> r]
    /\ UNCHANGED <<disk, creators, scanner, project_dirs, config_agents, projects_dir, dir_exists, schema, shared_context, clock, events>>

\* FoundryOS.create_project of Foundry OS v1.0 (foundry.py, `foundry new NAME`):
\* a project is a directory projects/<project_id>; the cli group has run
\* ensure_directories before
CreateProject ==
    /\ \E name \in FormNames :
         LET project_id == ProjectId(name)
             raised == IF project_id \in project_dirs THEN "already exists" ELSE ""
         IN  /\ project_dirs' = IF raised = "" THEN project_dirs \cup {project_id}
                                ELSE project_dirs
             /\ result' = [op |-> "create_project", args |-> name, raised |-> raised,
                           value |-> [target |-> project_id]]
    /\ dir_exists' = TRUE
    /\ UNCHANGED <<disk, creators, scanner, config_agents, projects_dir, schema, shared_context, clock, events>>

\* the project arguments of v1.0's assign
V10Projects == {acme, ProjectId(MyApp), Ghost}

\* FoundryOS.assign_agent of Foundry OS v1.0 (foundry.py, `foundry assign`)
AssignAgent ==
    /\ Len(events) < MaxAssign
    /\ \E task \in Tasks, project \in V10Projects, agent \in Agents :
         LET raised == IF project \notin project_dirs THEN "not found"
                       ELSE IF agent \notin config_agents THEN "Agent not found"
                       ELSE ""
             assignment == Assignment(task, project, agent, clock)
         IN  /\ shared_context' =
                    IF raised = ""
                    THEN WriteShared(shared_context,
                                     [file |-> [project |-> project, stamp |-> clock],
                                      content |-> assignment])
                    ELSE shared_context
             /\ events' = IF raised = "" THEN Append(events, assignment) ELSE events
             /\ result' = [op |-> "assign_agent",
                           args |-> [task |-> task, project |-> project, agent |-> agent],
                           raised |-> raised,
                           value |-> [assignment |-> assignment, warning |-> FALSE]]
    /\ dir_exists' = TRUE
    /\ UNCHANGED <<disk, creators, scanner, project_dirs, config_agents, projects_dir, schema, clock>>

\* the seeds of the writer specifications: two well-formed manifests and one
\* whose projectName is a number
WriterSeeds ==
    {f \in SeedFiles : f.file \in {acme, beta, <<"5">>}}

\* aggregation over every store of at most MaxFiles seed files
InitAgg == InitWith(SeedFiles)

NextAgg ==
    \/ EnsureDirectories
    \/ DiscoverProjects
    \/ FallbackDiscoverProjects
    \/ GetEmpireStatus
    \/ GetEmpireAnalytics
    \/ FindProject
    \/ CliStatus
    \/ CliProjects

SpecAgg == InitAgg /\ [][NextAgg]_vars

\* the three create paths
InitCreate == InitWith(WriterSeeds)

NextCreate ==
    \/ EnsureDirectories
    \/ CreateProjectFromManifest
    \/ DashboardCreateProject
    \/ DashboardUpload

SpecCreate == InitCreate /\ [][NextCreate]_vars

\* the seeds of the assignment specification: the writer seeds and a manifest
\* whose projectName is a relative path
AssignSeeds ==
    WriterSeeds \cup
    {File(<<"p">>, "obj", TRUE,
          Manifest(StrV(Dotted), Some("planning"), Absent, <<>>, <<>>), 0)}

\* assign_task and the clock
InitAssign == InitWith(AssignSeeds)

NextAssign ==
    \/ EnsureDirectories
    \/ Tick
    \/ AssignTask

SpecAssign == InitAssign /\ [][NextAssign]_vars

\* the other manifests of the directory during a race: well-formed ones
RaceSeeds ==
    {f \in SeedFiles : f.file \in {acme, beta}}

\* the file under contention before the race: not there, or holding the whole
\* text of an earlier document
RaceDisks ==
    {[exists |-> FALSE, bytes |-> <<>>]} \cup
    {[exists |-> TRUE, bytes |-> Bytes("old", n)] : n \in 1..MaxDoc}

\* what a race leaves alone
InitRace ==
    /\ projects_dir \in Stores(RaceSeeds, MaxFiles)
    /\ dir_exists = TRUE
    /\ schema = FALSE
    /\ shared_context = {}
    /\ clock = 0
    /\ events = <<>>
    /\ result = NoResult
    /\ project_dirs = {}
    /\ config_agents = ConfigAgents
    /\ disk \in RaceDisks

\* two `foundry new --manifest` processes whose manifests derive the same file name
InitCreateRace ==
    /\ InitRace
    /\ creators \in [Writers -> {[pc |-> "check", len |-> n, off |-> 0] : n \in 1..MaxDoc}]
    /\ scanner = IdleScanner

NextCreateRace ==
    \E w \in Writers :
        \/ CreatorCheck(w)
        \/ CreatorOpen(w)
        \/ CreatorWrite(w)

SpecCreateRace == InitCreateRace /\ [][NextCreateRace]_vars

\* a scan next to one writer: a create, which checks first, or an upload, which
\* opens the file at once
InitScanRace ==
    /\ InitRace
    /\ \E pc \in {"check", "open"}, n \in 1..MaxDoc :
           creators = [w \in Writers |-> IF w = "A" THEN [pc |-> pc, len |-> n, off |-> 0]
                                                   ELSE IdleCreator]
    /\ scanner = [IdleScanner EXCEPT !.pc = "glob"]

NextScanRace ==
    \/ \E w \in Writers :
           \/ CreatorCheck(w)
           \/ CreatorOpen(w)
           \/ CreatorWrite(w)
    \/ ScanGlob
    \/ ScanOpen
    \/ ScanRead
    \/ ScanParse
    \/ ScanReturn

SpecScanRace == InitScanRace /\ [][NextScanRace]_vars

(* The SEO audit service *)

\* what page inspection returns: whether the tag exists, and the length of the
\* meta description or the number of H1 tags
Audit(meta_exists, length, h1_exists, count) ==
    [meta_description |-> [exists |-> meta_exists, length |-> length],
     h1_tag |-> [exists |-> h1_exists, count |-> count]]

\* the lengths of meta descriptions: the limits of the scoring bands and their neighbours
MetaLengths == {0, 29, 30, 49, 50, 160, 161, 200, 201}

\* the audits perform_seo_audit returns from a page: without a meta tag the length
\* is 0, and the H1 exists when there is at least one
PageAudits ==
    {Audit(m, IF m THEN l ELSE 0, c > 0, c) :
        m \in BOOLEAN, l \in MetaLengths, c \in 0..MaxH1}

perform_basic_audit == Audit(FALSE, 0, FALSE, 0)

\* a scoring that takes up to three H1 tags for one
ScoreWithoutH1Count(audit_data) ==
    LET meta == audit_data.meta_description
        h1 == audit_data.h1_tag
    IN  (IF meta.exists
         THEN 20 + (IF 50 <= meta.length /\ meta.length <= 160 THEN 20 ELSE 0)
         ELSE 0)
        + (IF h1.exists THEN 30 + (IF h1.count <= 3 THEN 30 ELSE 0) ELSE 0)

calculate_seo_score(audit_data) ==
    LET meta == audit_data.meta_description
        h1 == audit_data.h1_tag
        length == meta.length
    IN  (IF meta.exists
         THEN 20 + (IF 50 <= length /\ length <= 160 THEN 20
                    ELSE IF (30 <= length /\ length < 50) \/ (160 < length /\ length <= 200)
                         THEN 10
                    ELSE 0)
         ELSE 0)
        + (IF h1.exists
           THEN 30 + (IF h1.count = 1 THEN 30
                      ELSE IF h1.count <= 3 THEN 15
                      ELSE 0)
           ELSE 0)

Recommendation(priority, issue) == [priority |-> priority, issue |-> issue]

generate_recommendations(audit_data) ==
    LET meta == audit_data.meta_description
        h1 == audit_data.h1_tag
    IN  (IF ~meta.exists THEN <<Recommendation("HIGH", "Missing Meta Description")>>
         ELSE IF meta.length < 50
              THEN <<Recommendation("MEDIUM", "Meta Description Too Short")>>
         ELSE IF meta.length > 160
              THEN <<Recommendation("MEDIUM", "Meta Description Too Long")>>
         ELSE <<>>)
        \o (IF ~h1.exists THEN <<Recommendation("HIGH", "Missing H1 Tag")>>
            ELSE IF h1.count > 1 THEN <<Recommendation("MEDIUM", "Multiple H1 Tags")>>
            ELSE <<>>)

\* perform_seo_audit: the page is inspected, or the inspection fails and the
\* basic audit is returned in its place
PerformSeoAudit ==
    /\ result.op \in {"none", "generate_recommendations"}
    /\ \E fallback \in BOOLEAN :
         \E audit_data \in IF fallback THEN {perform_basic_audit} ELSE PageAudits :
             result' = [op |-> "perform_seo_audit", args |-> [fallback |-> fallback],
                        raised |-> "",
                        value |-> [audit_data |-> audit_data, score |-> 0,
                                   recommendations |-> <<>>]]
    /\ UNCHANGED <<disk, creators, scanner, project_dirs, config_agents, projects_dir, dir_exists, schema, shared_context, clock, events>>

\* audit_website: score = calculate_seo_score(audit_data)
CalculateSeoScore ==
    /\ result.op = "perform_seo_audit"
    /\ result' = [result EXCEPT !.op = "calculate_seo_score",
                                !.value.score = calculate_seo_score(result.value.audit_data)]
    /\ UNCHANGED <<disk, creators, scanner, project_dirs, config_agents, projects_dir, dir_exists, schema, shared_context, clock, events>>

\* audit_website: recommendations = generate_recommendations(audit_data)
GenerateRecommendations ==
    /\ result.op = "calculate_seo_score"
    /\ result' = [result EXCEPT !.op = "generate_recommendations",
                                !.value.recommendations =
                                    generate_recommendations(result.value.audit_data)]
    /\ UNCHANGED <<disk, creators, scanner, project_dirs, config_agents, projects_dir, dir_exists, schema, shared_context, clock, events>>

\* the audit endpoint, one request after another
InitSeo ==
    /\ projects_dir = <<>>
    /\ dir_exists = TRUE
    /\ schema = FALSE
    /\ shared_context = {}
    /\ clock = 0
    /\ events = <<>>
    /\ result = NoResult
    /\ project_dirs = {}
    /\ config_agents = ConfigAgents
    /\ NoRace

NextSeo ==
    \/ PerformSeoAudit
    \/ CalculateSeoScore
    \/ GenerateRecommendations

SpecSeo == InitSeo /\ [][NextSeo]_vars

\* parse_revenue alone: the input is drawn from RevenueInputs, then parsed
InitRevenue ==
    /\ projects_dir = <<>>
    /\ dir_exists = TRUE
    /\ schema = FALSE
    /\ shared_context = {}
    /\ clock = 0
    /\ events = <<>>
    /\ result \in {[op |-> "input", args |-> x, raised |-> "", value |-> <<>>] :
                       x \in RevenueInputs}
    /\ project_dirs = {}
    /\ config_agents = ConfigAgents
    /\ NoRace

SpecRevenue == InitRevenue /\ [][ParseRevenue]_vars

\* Foundry OS v1.0: projects as directories, with the default configuration or a
\* foundry.yaml that registers alice
InitV10 ==
    /\ projects_dir = <<>>
    /\ dir_exists \in BOOLEAN
    /\ schema = FALSE
    /\ shared_context = {}
    /\ clock = 0
    /\ events = <<>>
    /\ result = NoResult
    /\ project_dirs = {}
    /\ config_agents \in {ConfigAgents, {"alice"}}
    /\ NoRace

NextV10 ==
    \/ EnsureDirectories
    \/ Tick
    \/ CreateProject
    \/ AssignAgent

SpecV10 == InitV10 /\ [][NextV10]_vars

----------------------------------------------------------------------------
(* Properties *)

AggregationOps == {"get_empire_status", "get_empire_analytics"}

\* the files of the store that parse as JSON and, when the FoundryOS in use has a
\* schema, validate against it (the fallback FoundryOS loads no schema)
ParsesAndValidates(f, fallback) ==
    f.kind \in {"obj", "array"} /\ ((schema /\ ~fallback) => f.conforms)

\* C1: discover_projects completes without raising for every store and returns
\* every manifest (a JSON object that validates when a schema is configured); a
\* malformed file never aborts the scan nor removes the other files.
C1_DiscoverNeverAborts ==
    (result.op = "discover_projects" /\ ~result.args.fallback) =>
        /\ result.raised = ""
        /\ \A i \in 1..Len(projects_dir) :
               (projects_dir[i].kind = "obj" /\ ParsesAndValidates(projects_dir[i], FALSE))
                   => \E j \in 1..Len(result.value.projects) :
                          result.value.projects[j].manifest_file = projects_dir[i].file

\* C2: total_projects equals the number of files that parse as valid JSON and
\* validate when a schema is configured; no file that passes both checks is excluded.
C2_TotalCountsParsedFiles ==
    (result.op \in AggregationOps /\ result.raised = "") =>
        result.value.total_projects =
            Cardinality({i \in 1..Len(projects_dir) :
                            ParsesAndValidates(projects_dir[i], result.args.fallback)})

\* C3: on a missing directory or a store without manifest files, aggregation raises
\* nothing and returns total_projects = 0 and every distribution mapping without keys.
C3_EmptyStoreEmptyDistributions ==
    (result.op \in AggregationOps /\ projects_dir = <<>>) =>
        /\ result.raised = ""
        /\ result.value.total_projects = 0
        /\ DOMAIN result.value.status_distribution = {}
        /\ DOMAIN result.value.agent_workload = {}
        /\ result.value.has_task_distribution => DOMAIN result.value.task_distribution = {}

\* C4: in every aggregation result, active_projects plus the number of manifests
\* whose status is 'archived' or 'completed' is total_projects, a manifest without
\* a status key being counted as active.
C4_ActivePlusClosedIsTotal ==
    (result.op \in AggregationOps /\ result.raised = "") =>
        LET ps == result.value.projects
            closed == {i \in 1..Len(ps) :
                          ps[i].doc.status \in {Some("archived"), Some("completed")}}
            statusless == {i \in 1..Len(ps) : ps[i].doc.status = Missing}
        IN  /\ result.value.active_projects + Cardinality(closed)
                   = result.value.total_projects
            /\ result.value.active_projects >= Cardinality(statusless)

\* C4 witness: a result over two manifests, one archived and one without a status
C4_Witness ==
    /\ result.op \in AggregationOps
    /\ result.raised = ""
    /\ result.value.total_projects = 2
    /\ result.value.active_projects = 1
    /\ \E i, j \in 1..Len(result.value.projects) :
           /\ result.value.projects[i].doc.status = Some("archived")
           /\ result.value.projects[j].doc.status = Missing


\* what discover_projects gave the aggregation whose result is held
Discovered ==
    IF result.args.fallback THEN fallback_discover_projects(projects_dir, dir_exists)
    ELSE discover_projects(projects_dir, dir_exists, schema)

\* the revenue of a manifest as the specification reads it: a number as it is, a
\* string with everything but digits, '.' and '-' stripped and then parsed, 0.0
\* when nothing is left, when it does not parse, or when there is no revenue
SpecifiedRevenue(v) ==
    IF v.t = "int" THEN Float(v.n, 0)
    ELSE IF v.t = "float" THEN v
    ELSE IF v.t = "str"
         THEN LET f == ParseFloat(CleanRevenue(v.s))
              IN  IF IsRaise(f) THEN Float(0, 0) ELSE f
    ELSE Float(0, 0)

RECURSIVE SpecifiedTotal(_)
SpecifiedTotal(ps) ==
    IF ps = <<>> THEN Float(0, 0)
    ELSE FloatAdd(SpecifiedRevenue(Head(ps).doc.metrics.revenue), SpecifiedTotal(Tail(ps)))

\* C8: total_revenue is the sum over the parsed manifests of the parsed
\* metrics.revenue (numbers as they are, strings stripped to digits, '.' and '-'),
\* and aggregation does not raise on a bare number or on a string without '$'.
C8_TotalRevenueIsParsedSum ==
    (/\ result.op \in AggregationOps
     /\ Discovered.raised = ""
     /\ \A i \in 1..Len(Discovered.projects) : Discovered.projects[i].kind = "obj") =>
        /\ result.raised = ""
        /\ result.value.total_revenue = SpecifiedTotal(result.value.projects)

\* C9: parse_revenue returns a number for every input and never raises; a number
\* comes back as its float value; "$1,234.50" gives 1234.5, "" and "N/A" give 0.0,
\* 42 gives 42.0.
C9_ParseRevenueTotal ==
    result.op = "parse_revenue" =>
        /\ result.raised = ""
        /\ result.value.t \in {"float", "bigfloat"}
        /\ result.args.t = "int" => result.value = Float(result.args.n, 0)
        /\ result.args = StrV(<<"$", "1", ",", "2", "3", "4", ".", "5", "0">>)
               => result.value = Float(12345, 1)
        /\ result.args \in {StrV(<<>>), StrV(<<"N", "/", "A">>)} => result.value = Float(0, 0)

\* the place of a file in the directory scan
ScanIndex(file) == CHOOSE i \in 1..Len(projects_dir) : projects_dir[i].file = file

\* C10: the list discover_projects returns is in ascending case-sensitive lexical
\* order of projectName (capitals before lowercase), manifests with equal
\* projectName staying in directory-scan order.
C10_DiscoverSortedByName ==
    (result.op = "discover_projects" /\ result.raised = "") =>
        LET ps == result.value.projects
        IN  \A i, j \in 1..Len(ps) :
                (/\ i < j
                 /\ ps[i].kind = "obj" /\ ps[j].kind = "obj"
                 /\ SortKey(ps[i]).t = "str" /\ SortKey(ps[j]).t = "str") =>
                    /\ ~StrLess(SortKey(ps[j]).s, SortKey(ps[i]).s)
                    /\ SortKey(ps[i]) = SortKey(ps[j])
                           => ScanIndex(ps[i].manifest_file) < ScanIndex(ps[j].manifest_file)


CreateOps == {"create_project_from_manifest", "dashboard_create_project", "dashboard_upload"}

\* C5: a create (CLI, form or upload) whose name maps to the file name of an
\* existing manifest file fails with 'already exists' and leaves the store as it was.
C5_CreateExistingFails ==
    [][(/\ result'.op \in CreateOps
        /\ result'.value.target # <<>>
        /\ result'.value.target \in FileNames(projects_dir))
           => (result'.raised = "already exists" /\ projects_dir' = projects_dir)]_vars

\* whether project_name equals, ignoring case, the projectName of a discovered manifest
MatchesDiscovered(project_name) ==
    /\ dir_exists
    /\ \E i \in 1..Len(projects_dir) :
           /\ LoadOutcome(projects_dir[i], schema) = "loaded"
           /\ SortKey(projects_dir[i]).t = "str"
           /\ Lower(SortKey(projects_dir[i]).s) = Lower(project_name)

\* C6: assign_task for a project name that matches no discovered manifest fails
\* with 'project not found' and writes nothing to the shared-context directory.
C6_AssignUnknownProjectFails ==
    [][(result'.op = "assign_task" /\ ~MatchesDiscovered(result'.args.project))
           => (result'.raised = "not found" /\ shared_context' = shared_context)]_vars

\* C7: after n successful assignments the shared-context directory holds n
\* distinct assignment files, each with the record written for its own event.
C7_OneFilePerAssignment ==
    /\ Cardinality(shared_context) = Len(events)
    /\ \A i \in 1..Len(events) : \E f \in shared_context : f.content = events[i]

\* the aggregator named op applied to a list of discovered projects
AggregateOf(op, ps) ==
    LET d == [raised |-> "", projects |-> ps, diagnostics |-> <<>>]
    IN  IF op = "get_empire_status" THEN get_empire_status(d) ELSE get_empire_analytics(d)

\* the list ps without its i-th element
Without(ps, i) == SubSeq(ps, 1, i - 1) \o SubSeq(ps, i + 1, Len(ps))

IsClosed(p) == p.doc.status \in {Some("archived"), Some("completed")}

\* the two manifests of the end-to-end example
ExampleFiles ==
    {f \in SeedFiles : f.file \in {acme, beta}}

\* C11: over the two manifests Acme (production, "$1,000", team alice) and Beta
\* (archived, "$500", team alice) aggregation gives total_projects = 2,
\* active_projects = 1, total_revenue = 1500 and agent_workload = {alice: 1}; and in
\* every result an archived or completed project adds one to total_projects and its
\* revenue to total_revenue, and adds nothing to active_projects and agent_workload.
C11_ClosedProjectsCounted ==
    (result.op \in AggregationOps) =>
        /\ (FileNames(projects_dir) = {acme, beta}
            /\ {projects_dir[i] : i \in 1..Len(projects_dir)} = ExampleFiles) =>
               /\ result.raised = ""
               /\ result.value.total_projects = 2
               /\ result.value.active_projects = 1
               /\ result.value.total_revenue = Float(1500, 0)
               /\ result.value.agent_workload = ("alice" :> 1)
        /\ result.raised = "" =>
               LET ps == result.value.projects
               IN  \A i \in 1..Len(ps) :
                       IsClosed(ps[i]) =>
                           LET rest == AggregateOf(result.op, Without(ps, i))
                           IN  /\ result.value.total_projects = rest.total_projects + 1
                               /\ result.value.total_revenue =
                                      FloatAdd(rest.total_revenue,
                                               SpecifiedRevenue(ps[i].doc.metrics.revenue))
                               /\ result.value.active_projects = rest.active_projects
                               /\ result.value.agent_workload = rest.agent_workload

\* whether the team of project p lists agent a
Lists(p, a) == \E k \in 1..Len(p.doc.team) : p.doc.team[k] = a

\* every agent some team of ps lists
TeamAgents(ps) == UNION {{ps[i].doc.team[k] : k \in 1..Len(ps[i].doc.team)} : i \in 1..Len(ps)}

\* C12: agent_workload[a] is the number of projects, neither archived nor completed,
\* whose team lists a, a project whose team lists a twice counting once; an agent
\* that no such project lists has no entry.
C12_WorkloadCountsProjects ==
    (result.op \in AggregationOps /\ result.raised = "") =>
        LET ps == result.value.projects
            workload == result.value.agent_workload
        IN  \A a \in TeamAgents(ps) \cup DOMAIN workload :
                LET n == Cardinality({i \in 1..Len(ps) : ~IsClosed(ps[i]) /\ Lists(ps[i], a)})
                IN  IF n = 0 THEN a \notin DOMAIN workload
                    ELSE a \in DOMAIN workload /\ workload[a] = n

\* the entry of revenue_projects the specification gives a manifest
RevenueEntry(p) ==
    [name |-> Get(p.doc.projectName, StrV(Unknown)),
     revenue |-> SpecifiedRevenue(p.doc.metrics.revenue),
     status |-> GetOr(p.doc.status, "unknown"),
     users |-> Get(p.doc.metrics.users, IntV(0))]

\* C13: revenue_projects is a list holding, for each manifest whose parsed revenue
\* is greater than 0, exactly one entry {name, revenue, status, users}, and nothing
\* for a manifest whose revenue is missing, zero or unparsable.
C13_RevenueProjectsIsList ==
    (result.op \in AggregationOps /\ result.raised = "") =>
        LET ps == result.value.projects
            earning == SelectSeq(ps, LAMBDA p : SpecifiedRevenue(p.doc.metrics.revenue).n > 0)
        IN  /\ result.value.revenue_projects_type = "list"
            /\ result.value.revenue_projects =
                   [i \in 1..Len(earning) |-> RevenueEntry(earning[i])]

\* the active tasks of the projects of ps that are neither archived nor completed,
\* as pairs <<project index, task index>>
OpenTasks(ps) ==
    UNION {{<<i, k>> : k \in 1..Len(ps[i].doc.tasks.active)} :
               i \in {j \in 1..Len(ps) : ~IsClosed(ps[j])}}

\* the sum of the values of a dict
RECURSIVE SumValues(_)
SumValues(d) ==
    IF DOMAIN d = {} THEN 0
    ELSE LET k == CHOOSE x \in DOMAIN d : TRUE
         IN  d[k] + SumValues([x \in DOMAIN d \ {k} |-> d[x]])

\* C14: task_distribution[p] is the number of tasks.active entries with priority p
\* (no priority: 'medium') over the projects that are neither archived nor
\* completed; the values sum to the number of those tasks, and the tasks of
\* archived or completed projects are not counted.
C14_TaskDistributionCountsOpenTasks ==
    (result.op \in AggregationOps /\ result.raised = "" /\ result.value.has_task_distribution) =>
        LET ps == result.value.projects
            dist == result.value.task_distribution
            priority(t) == GetOr(ps[t[1]].doc.tasks.active[t[2]].priority, "medium")
        IN  /\ \A t \in OpenTasks(ps) : priority(t) \in DOMAIN dist
            /\ \A p \in DOMAIN dist :
                   dist[p] = Cardinality({t \in OpenTasks(ps) : priority(t) = p})
            /\ SumValues(dist) = Cardinality(OpenTasks(ps))

\* C14 witness: a distribution over an open project with a 'high' task and a task
\* without priority, next to an archived project that has an active task
C14_Witness ==
    /\ result.op = "get_empire_analytics"
    /\ result.raised = ""
    /\ result.value.task_distribution["high"] = 1
    /\ result.value.task_distribution["medium"] = 1
    /\ result.value.task_distribution["low"] = 0
    /\ \E i \in 1..Len(result.value.projects) :
           /\ IsClosed(result.value.projects[i])
           /\ result.value.projects[i].doc.tasks.active # <<>>

\* the status a manifest is counted under
CountedStatus(p) == IF p.doc.status = Missing THEN "unknown" ELSE p.doc.status.v

\* C15: status_distribution[s] is the number of parsed manifests whose status is s,
\* a manifest without a status being counted under 'unknown'; the values sum to
\* total_projects and no key has the count 0.
C15_StatusDistributionCountsManifests ==
    (result.op \in AggregationOps /\ result.raised = "") =>
        LET ps == result.value.projects
            dist == result.value.status_distribution
        IN  /\ DOMAIN dist = {CountedStatus(ps[i]) : i \in 1..Len(ps)}
            /\ \A s \in DOMAIN dist :
                   /\ dist[s] = Cardinality({i \in 1..Len(ps) : CountedStatus(ps[i]) = s})
                   /\ dist[s] > 0
            /\ SumValues(dist) = result.value.total_projects

\* C15 witness: a distribution over a manifest without a status and one in production
C15_Witness ==
    /\ result.op \in AggregationOps
    /\ result.raised = ""
    /\ result.value.total_projects = 2
    /\ result.value.status_distribution = ("unknown" :> 1) @@ ("production" :> 1)
    /\ \E i \in 1..Len(result.value.projects) : result.value.projects[i].doc.status = Missing

\* the operations that only read the manifest store
ReadOps == AggregationOps \cup {"discover_projects", "find_project"}

\* C16: discover_projects, find_project, get_empire_status and get_empire_analytics
\* leave the projects directory as it was: the same files in the same places with
\* the same content, whether or not the scan skipped some of them.
C16_AggregationKeepsStore ==
    [][result'.op \in ReadOps => projects_dir' = projects_dir]_vars

\* C16 witness: an aggregation has returned over a store of which it skipped a file
C16_Witness ==
    /\ result.op \in AggregationOps
    /\ result.raised = ""
    /\ Len(projects_dir) = 2
    /\ result.value.total_projects = 1

\* what the two aggregators return over a store
StatusOf(store, exists, sch) == get_empire_status(discover_projects(store, exists, sch))

AnalyticsOf(store, sch) == get_empire_analytics(discover_projects(store, TRUE, sch))

\* C17: an assign_task, successful or failed, leaves every manifest file as it
\* was, so that both aggregators return the same result (counts, revenue,
\* distributions and the manifests with their tasks lists) after it as before.
C17_AssignKeepsManifests ==
    [][result'.op = "assign_task" =>
          /\ projects_dir' = projects_dir
          /\ StatusOf(projects_dir', dir_exists', schema')
                 = StatusOf(projects_dir, dir_exists, schema)
          /\ AnalyticsOf(projects_dir', schema') = AnalyticsOf(projects_dir, schema)]_vars

\* the operations that assign a task: assign_task of v1.1 and assign_agent of v1.0
AssignOps == {"assign_task", "assign_agent"}

\* whether the project an assignment names exists: a discovered manifest of that
\* name for assign_task, a project directory of that name for assign_agent
AssignedProjectExists ==
    IF result.op = "assign_task" THEN MatchesDiscovered(result.args.project)
    ELSE result.args.project \in project_dirs

\* whether the team of a discovered manifest of that name lists the agent (the
\* projects of v1.0 get their agents from templates, of which the default
\* configuration has none)
InTeamOfAssignedProject ==
    /\ result.op = "assign_task"
    /\ \E i \in 1..Len(projects_dir) :
           /\ SortKey(projects_dir[i]).t = "str"
           /\ Lower(SortKey(projects_dir[i]).s) = Lower(result.args.project)
           /\ Lists(projects_dir[i], result.args.agent)

\* C18: an assignment for an existing project to an agent that is neither in the
\* configuration's registry nor in the project's team is warned about and not
\* rejected: it returns the record with status 'assigned' and the assignment file
\* holds it.
C18_UnregisteredAgentAccepted ==
    (/\ result.op \in AssignOps
     /\ AssignedProjectExists
     /\ result.args.agent \notin config_agents
     /\ ~InTeamOfAssignedProject) =>
        /\ result.raised = ""
        /\ result.value.warning
        /\ result.value.assignment.status = "assigned"
        /\ \E f \in shared_context : f.content = result.value.assignment

\* the file-name key the specification derives from a project name: lowercase,
\* spaces and hyphens to underscores
SpecifiedKey(project_name) == Replace(Replace(Lower(project_name), " ", "_"), "-", "_")

\* the project name a create was given: the form's text, or the projectName of
\* the manifest handed to the CLI or uploaded
CreatedName(r) ==
    IF r.op = "dashboard_create_project" THEN r.args ELSE r.args.doc.projectName.s

\* C19: every create path derives the file name from the project name by
\* lowercasing and replacing spaces and hyphens with underscores, so that names
\* differing only in case or in space, hyphen or underscore ('My App', 'my-app')
\* name the same file and a create of the second fails with 'already exists'.
C19_KeyFoldsSpacesAndHyphens ==
    [][(result'.op \in CreateOps /\ result'.value.target # <<>>) =>
          /\ result'.value.target = SpecifiedKey(CreatedName(result'))
          /\ SpecifiedKey(CreatedName(result')) \in FileNames(projects_dir) =>
                 /\ result'.raised = "already exists"
                 /\ projects_dir' = projects_dir]_vars

\* the places in the scan of the discovered manifests whose projectName equals
\* project_name ignoring letter case
Candidates(project_name) ==
    {i \in 1..Len(projects_dir) :
        /\ dir_exists
        /\ LoadOutcome(projects_dir[i], schema) = "loaded"
        /\ SortKey(projects_dir[i]).t = "str"
        /\ Lower(SortKey(projects_dir[i]).s) = Lower(project_name)}

\* whether the manifest at place i comes before the one at place j in ascending
\* projectName order, equal names in scan order
ComesBefore(i, j) ==
    \/ StrLess(SortKey(projects_dir[i]).s, SortKey(projects_dir[j]).s)
    \/ SortKey(projects_dir[i]) = SortKey(projects_dir[j]) /\ i < j

\* C20: find_project(name) returns a discovered manifest whose projectName equals
\* name ignoring letter case, None exactly when there is none, and of several
\* matches the one that comes first in discover_projects' sorted order.
C20_FindFirstMatchIgnoringCase ==
    result.op = "find_project" =>
        LET cands == Candidates(result.args.project_name)
        IN  /\ result.raised = ""
            /\ result.value.found <=> cands # {}
            /\ result.value.found =>
                   \E i \in cands :
                       /\ result.value.project.manifest_file = projects_dir[i].file
                       /\ result.value.project.doc = projects_dir[i].doc
                       /\ \A j \in cands \ {i} : ComesBefore(i, j)

\* why the scan has to skip a file: "json" when it is not JSON, "schema" when it
\* parses and fails the configured schema, "load" when it passes both and is not
\* an object, "" when it is a manifest
SkipReason(f) ==
    IF f.kind = "garbage" THEN "json"
    ELSE IF schema /\ ~f.conforms THEN "schema"
    ELSE IF f.kind # "obj" THEN "load"
    ELSE ""

\* C21: every file that discover_projects skips gets exactly one diagnostic, which
\* names the file and whose kind tells a schema violation from a parse error; a
\* loaded file gets none; and when the scan returns, diagnostics and returned
\* manifests together are as many as the files scanned.
C21_OneDiagnosticPerSkippedFile ==
    (result.op = "discover_projects" /\ ~result.args.fallback /\ dir_exists) =>
        LET diags == result.value.diagnostics
            about(f) == {k \in 1..Len(diags) : diags[k].file = f.file}
        IN  /\ \A i \in 1..Len(projects_dir) :
                   LET f == projects_dir[i]
                   IN  IF SkipReason(f) = "" THEN about(f) = {}
                       ELSE /\ Cardinality(about(f)) = 1
                            /\ \A k \in about(f) : diags[k].kind = SkipReason(f)
            /\ result.raised = "" =>
                   Len(diags) + Len(result.value.projects) = Len(projects_dir)

\* C21 witness: a scan under a schema has skipped a file that is not JSON and a
\* file that fails the schema, with one diagnostic of its own kind for each
C21_Witness ==
    /\ result.op = "discover_projects"
    /\ ~result.args.fallback
    /\ result.raised = ""
    /\ schema
    /\ Len(projects_dir) = 2
    /\ {result.value.diagnostics[k].kind : k \in 1..Len(result.value.diagnostics)}
           = {"json", "schema"}

\* C22: each manifest that discover_projects returns carries _manifest_file, the
\* path of a file of the store, and _last_modified, that file's modification
\* time, and its document is the document of that file, key for key.
C22_DiscoverKeepsDocument ==
    (result.op = "discover_projects" /\ ~result.args.fallback /\ result.raised = "") =>
        \A k \in 1..Len(result.value.projects) :
            LET p == result.value.projects[k]
            IN  /\ p.meta
                /\ \E i \in 1..Len(projects_dir) :
                       /\ p.manifest_file = projects_dir[i].file
                       /\ p.last_modified = projects_dir[i].mtime
                       /\ p.doc = projects_dir[i].doc

\* C22 witness: a scan has returned two manifests, one of them with a team, a
\* status and a revenue in its document
C22_Witness ==
    /\ result.op = "discover_projects"
    /\ ~result.args.fallback
    /\ result.raised = ""
    /\ Len(result.value.projects) = 2
    /\ \E k \in 1..2 :
           LET d == result.value.projects[k].doc
           IN  /\ d.team # Absent
               /\ d.status # Absent
               /\ d.metrics.revenue # Absent

\* the manifest file of that name in the store
FileNamed(store, name) == CHOOSE f \in {store[i] : i \in 1..Len(store)} : f.file = name

\* C23: after a successful create from a manifest file or from the form's fields,
\* the manifest written holds the supplied fields and a tasks mapping whose
\* active and completed sequences are both empty.
C23_CreatedManifestHasEmptyTasks ==
    (result.op \in {"create_project_from_manifest", "dashboard_create_project"}
     /\ result.raised = "") =>
        /\ result.value.target \in FileNames(projects_dir)
        /\ LET doc == FileNamed(projects_dir, result.value.target).doc
           IN  /\ doc.tasks.active = <<>>
               /\ doc.tasks.completed = <<>>
               /\ IF result.op = "dashboard_create_project"
                  THEN doc.projectName = StrV(result.args)
                  ELSE /\ doc.projectName = result.args.doc.projectName
                       /\ doc.status = result.args.doc.status
                       /\ doc.metrics = result.args.doc.metrics
                       /\ doc.team = result.args.doc.team

\* C24: no operation removes a manifest file: every step leaves each file name of
\* the projects directory in place.
C24_ManifestNamesOnlyGrow ==
    [][FileNames(projects_dir) \subseteq FileNames(projects_dir')]_vars

\* C24 witness: a create has written under a name the store already held, next
\* to another manifest file, and both names are still there
C24_Witness ==
    /\ result.op \in {"dashboard_create_project", "dashboard_upload"}
    /\ result.raised = ""
    /\ result.value.target = acme
    /\ FileNames(projects_dir) = {acme, beta}
    /\ FileNamed(projects_dir, acme).doc.status = Some("planning")

\* the consumers of the discovered manifests
Consumers == {"get_empire_status", "get_empire_analytics", "find_project", "status", "projects"}

\* C25: no consumer raises on a missing key: get_empire_status, find_project, the
\* status and projects commands and get_empire_analytics read a manifest that
\* lacks projectName, projectType, status, team, metrics or tasks, or a task that
\* lacks description, assignedTo or priority, through a default.
C25_ConsumersTolerateMissingKeys ==
    result.op \in Consumers => result.raised # "KeyError"

\* both creates have returned or raised
CreatorsFinished == \A w \in Writers : creators[w].pc \in {"done", "already exists"}

\* C26: when two concurrent creates for the same file name have ended and one of
\* them reported success, the file exists and holds the whole document of a
\* creator that reported success, and nothing else.
C26_RaceLeavesOneWholeDocument ==
    (CreatorsFinished /\ \E w \in Writers : creators[w].pc = "done") =>
        /\ disk.exists
        /\ \E w \in Writers :
               /\ creators[w].pc = "done"
               /\ disk.bytes = Bytes(w, creators[w].len)

\* the scan has returned
ScanFinished == scanner.pc = "done"

\* C27: a scan that runs while a writer creates or overwrites a manifest returns
\* without raising; of that manifest it returns a whole document (the one the
\* file held before or the writer's), or skips the file with one log entry, or
\* does not see the file; and every other manifest of the directory is returned.
C27_ScanBesideWriter ==
    ScanFinished =>
        /\ result.raised = ""
        /\ \/ scanner.outcome = "returned" /\ scanner.doc \in {"old", "A"}
           \/ scanner.outcome = "skipped" /\ scanner.logged = 1
           \/ scanner.outcome = "not seen"
        /\ Len(result.value.projects) = Len(projects_dir)
        /\ \A i \in 1..Len(projects_dir) :
               \E k \in 1..Len(result.value.projects) :
                   /\ result.value.projects[k].manifest_file = projects_dir[i].file
                   /\ result.value.projects[k].doc = projects_dir[i].doc

\* C27 witness: the scan read the file while the writer was inside json.dump,
\* skipped it with a log entry, and returned the other manifest
C27_Witness ==
    /\ ScanFinished
    /\ scanner.outcome = "skipped"
    /\ scanner.buf # <<>>
    /\ creators["A"].pc = "dump"
    /\ Len(result.value.projects) = 1

\* the name a create reports: project_data.get('projectName', 'unknown')
CreatedProjectName == Get(result.args.doc.projectName, StrV(Unknown))

\* whether another file of the store has that name, ignoring case
NameTakenElsewhere ==
    \E i \in 1..Len(projects_dir) :
        /\ projects_dir[i].file # result.value.target
        /\ projects_dir[i].doc.projectName.t = "str"
        /\ Lower(projects_dir[i].doc.projectName.s) = Lower(CreatedProjectName.s)

\* C28: after create_project_from_manifest has succeeded for the name N (N =
\* 'unknown' for a manifest without projectName) and no other manifest has that
\* name ignoring case, find_project returns the created manifest for N and for N
\* in lower case, so that an assign_task to N finds its project.
C28_CreatedProjectIsFound ==
    (result.op = "create_project_from_manifest" /\ result.raised = "" /\ ~NameTakenElsewhere) =>
        \A name \in {CreatedProjectName.s, Lower(CreatedProjectName.s)} :
            LET f == find_project(discover_projects(projects_dir, dir_exists, schema), name)
            IN  /\ f.raised = ""
                /\ f.found
                /\ f.project.manifest_file = result.value.target
                /\ f.project.doc.projectName = result.args.doc.projectName

\* C29: on the same store get_empire_status and get_empire_analytics both return,
\* with the same total_projects, active_projects, total_revenue,
\* status_distribution and agent_workload, whatever form the revenues have.
C29_AggregatorsAgree ==
    (result.op \in AggregationOps /\ Discovered.raised = "") =>
        LET s == StatusOf(projects_dir, dir_exists, schema)
            a == AnalyticsOf(projects_dir, schema)
        IN  /\ s.raised = ""
            /\ a.raised = ""
            /\ s.total_projects = a.total_projects
            /\ s.active_projects = a.active_projects
            /\ s.total_revenue = a.total_revenue
            /\ s.status_distribution = a.status_distribution
            /\ s.agent_workload = a.agent_workload

\* C30: for every audit of a page the score is an integer from 0 to 100, and it is
\* 100 exactly when there are no recommendations, which is when the meta
\* description exists with a length of 50 to 160 and there is exactly one H1; the
\* basic audit scores 0 and gets the two HIGH recommendations.
C30_ScoreAndRecommendationsAgree ==
    result.op = "generate_recommendations" =>
        LET audit_data == result.value.audit_data
            score == result.value.score
            recommendations == result.value.recommendations
        IN  /\ score \in 0..100
            /\ score = 100 <=> recommendations = <<>>
            /\ recommendations = <<>> <=>
                   /\ audit_data.meta_description.exists
                   /\ audit_data.meta_description.length \in 50..160
                   /\ audit_data.h1_tag.count = 1
            /\ result.args.fallback =>
                   /\ score = 0
                   /\ recommendations = <<Recommendation("HIGH", "Missing Meta Description"),
                                          Recommendation("HIGH", "Missing H1 Tag")>>

\* C30 witness: a page with a meta description of 160 characters and one H1 has
\* been scored 100 and given no recommendation
C30_Witness ==
    /\ result.op = "generate_recommendations"
    /\ ~result.args.fallback
    /\ result.value.audit_data = Audit(TRUE, 160, TRUE, 1)
    /\ result.value.score = 100
    /\ result.value.recommendations = <<>>

====
